---- MODULE Spec2Model ----
(***************************************************************************)
(* ml-factor-sp500: walk-forward splitting (model.py), position building   *)
(* (model.py), portfolio simulation and performance statistics            *)
(* (backtest.py), with the target construction of features.py and the     *)
(* rebalance-date derivation of backtest.month_ends as used by run.main.  *)
(*                                                                         *)
(* Numbers that are floats in the program are exact rationals <<n, d>>     *)
(* here (d > 0, lowest terms); <<0, 0>> stands for NaN.                    *)
(* Dates are calendar days (year, month, day) encoded order-preservingly.  *)
(***************************************************************************)
EXTENDS Integers, Sequences, FiniteSets, TLC

VARIABLES
    pc,               \* position of the running function
    \* ---- make_walkforward_splits
    rebal_in,         \* argument rebal_dates as passed (any order, duplicates allowed)
    train_years,      \* argument train_years
    test_months,      \* argument test_months
    rebal,            \* rebal_dates after to_datetime(...).sort_values()
    ci,               \* index of the candidate test_start in the for loop
    splits,           \* list of (train_dates, test_dates)
    \* ---- run.main up to generate_monthly_positions, and generate_monthly_positions
    panel_dates,      \* the panel's trading dates, ascending (shared by all tickers)
    feat_rows,        \* date -> number of tickers whose features are all defined
    horizon,          \* add_target's horizon, in rows
    min_universe,     \* argument min_universe
    target_date,      \* date -> date of the future close in y_fwd_3m (0: target is NaN)
    rebal_dates,      \* month_ends(panel dates)
    usable,           \* date -> number of rows of panel.dropna(features + target)
    wsplits,          \* splits = make_walkforward_splits(rebal_dates)
    si,               \* index of the split in the outer loop
    di,               \* index of the test date in the inner loop
    model,            \* fitted state of the one MLRegressor (0: not fitted yet)
    X_train,          \* X_train/y_train of the current split: set of [date, target]
    monthly_positions,\* dict date -> WeightVector
    write_log,        \* history: every assignment monthly_positions[d] = w, in order
    \* ---- generate_monthly_positions, lines 92-107, on one cross-section
    preds,            \* model.predict(X.values), one score per ticker 1..n
    top_q,            \* argument top_q
    bot_q,            \* argument bot_q
    long_cut,         \* s.quantile(1 - top_q)
    short_cut,        \* s.quantile(bot_q)
    longs,            \* s[s >= long_cut].index
    shorts,           \* s[s <= short_cut].index
    w,                \* the WeightVector being built
    \* ---- backtest_positions
    px,               \* panel["close"].unstack("ticker"): day -> ticker -> close
    sched,            \* argument monthly_positions: date -> WeightVector
    tc_bps,           \* argument tc_bps
    pad_fill,         \* whether this pandas pads missing prices in pct_change
    daily_ret,        \* px.pct_change()
    daily_w,          \* the schedule projected onto the daily index
    turnover,         \* day -> one-way turnover
    tc,               \* day -> transaction cost
    port_ret,         \* day -> portfolio return
    bt_stats,         \* stats returned by backtest_positions
    bt_out,           \* returned series port_ret.fillna(0.0)
    \* ---- compute_perf_stats
    returns,          \* argument returns
    equity,           \* (1 + r).cumprod()
    peak,             \* equity.cummax()
    dd,               \* equity / peak - 1
    perf_stats        \* the returned dict

splitVars == <<rebal_in, train_years, test_months, rebal, ci, splits>>
genOther == <<panel_dates, feat_rows, horizon, min_universe, target_date, rebal_dates,
              usable, wsplits, si, di, model, X_train, write_log>>
genVars == <<genOther, monthly_positions>>
posVars == <<preds, top_q, bot_q, long_cut, short_cut, longs, shorts, w>>
btVars == <<px, sched, tc_bps, pad_fill, daily_ret, daily_w, turnover, tc, port_ret,
            bt_stats, bt_out>>
perfVars == <<returns, equity, peak, dd, perf_stats>>
vars == <<pc, splitVars, genVars, posVars, btVars, perfVars>>

(***************************************************************************)
(* Bounds of the model                                                     *)
(***************************************************************************)
MaxTrainYears == 2
MaxTestMonths == 2
MaxPerMonth == 2
MaxMonths == 27
MaxHorizon == 2
MaxTickers == 4
MaxScore == 3
MaxRetLen == 3
MaxDays == 3
MaxEntries == 2

(***************************************************************************)
(* Program constants                                                       *)
(***************************************************************************)
MIN_TRAIN_DATES == 24
MIN_TRAIN_ROWS == 1000
TRAIN_YEARS == 5
TEST_MONTHS == 6
MIN_UNIVERSE == 50
START_YEAR == 2010
TC_BPS_DEFAULT == 5

(***************************************************************************)
(* Generic helpers                                                         *)
(***************************************************************************)
Min2(a, b) == IF a <= b THEN a ELSE b
SeqToSet(s) == {s[k] : k \in DOMAIN s}
MaxOf(S) == CHOOSE x \in S : \A y \in S : y <= x
Reverse(s) == [k \in 1..Len(s) |-> s[Len(s) + 1 - k]]

(***************************************************************************)
(* Exact arithmetic for the program's floats: <<n, d>> with d > 0 in       *)
(* lowest terms; NaN is <<0, 0>> and propagates through every operation.   *)
(***************************************************************************)
Abs(x) == IF x < 0 THEN -x ELSE x
RECURSIVE Gcd(_, _)
Gcd(a, b) == IF b = 0 THEN a ELSE Gcd(b, a % b)

NaN == <<0, 0>>
IsNaN(a) == a[2] = 0
Rat(n, d) ==
    IF d = 0 THEN NaN
    ELSE LET g == Gcd(Abs(n), Abs(d))
         IN  IF d < 0 THEN <<(-n) \div g, (-d) \div g>> ELSE <<n \div g, d \div g>>
Zero == Rat(0, 1)
One == Rat(1, 1)
\* operands are reduced against each other first, so that intermediate
\* products stay small
Lcm(a, b) == (a \div Gcd(a, b)) * b
RAdd(a, b) ==
    IF IsNaN(a) \/ IsNaN(b) THEN NaN
    ELSE LET l == Lcm(a[2], b[2])
         IN  Rat(a[1] * (l \div a[2]) + b[1] * (l \div b[2]), l)
RNeg(a) == <<-a[1], a[2]>>
RSub(a, b) == RAdd(a, RNeg(b))
RMul(a, b) ==
    IF IsNaN(a) \/ IsNaN(b) THEN NaN
    ELSE LET g == Gcd(Abs(a[1]), b[2])
             h == Gcd(Abs(b[1]), a[2])
         IN  Rat((a[1] \div g) * (b[1] \div h), (a[2] \div h) * (b[2] \div g))
\* a / b; the program divides by zero only as 0 / 0, which is NaN
RDiv(a, b) ==
    IF IsNaN(a) \/ IsNaN(b) \/ b[1] = 0 THEN NaN
    ELSE RMul(a, IF b[1] < 0 THEN <<-b[2], -b[1]>> ELSE <<b[2], b[1]>>)
RAbs(a) == <<Abs(a[1]), a[2]>>
\* comparisons are false when an operand is NaN
RLe(a, b) ==
    /\ ~IsNaN(a) /\ ~IsNaN(b)
    /\ a[1] * (Lcm(a[2], b[2]) \div a[2]) <= b[1] * (Lcm(a[2], b[2]) \div b[2])
RLt(a, b) == RLe(a, b) /\ a # b
\* fillna(0.0)
FillNa0(a) == IF IsNaN(a) THEN Zero ELSE a

\* Series.sum() / DataFrame.sum(axis=1): NaN entries are skipped
RECURSIVE RSumSeq(_, _)
RSumSeq(s, k) ==
    IF k = 0 THEN Zero
    ELSE IF IsNaN(s[k]) THEN RSumSeq(s, k - 1) ELSE RAdd(RSumSeq(s, k - 1), s[k])
RECURSIVE RSumSet(_, _)
RSumSet(f, S) ==
    IF S = {} THEN Zero
    ELSE LET x == CHOOSE y \in S : TRUE
         IN  IF IsNaN(f[x]) THEN RSumSet(f, S \ {x}) ELSE RAdd(f[x], RSumSet(f, S \ {x}))

(***************************************************************************)
(* Calendar: pandas Timestamp at day resolution and pd.DateOffset          *)
(***************************************************************************)
Date(y, m, d) == (y * 12 + (m - 1)) * 31 + (d - 1)
YearOf(x) == x \div 372
MonthOf(x) == ((x \div 31) % 12) + 1
DayOf(x) == (x % 31) + 1

IsLeap(y) == (y % 4 = 0 /\ y % 100 # 0) \/ y % 400 = 0
DaysInMonth(y, m) ==
    IF m = 2 THEN (IF IsLeap(y) THEN 29 ELSE 28)
    ELSE IF m \in {4, 6, 9, 11} THEN 30 ELSE 31

\* x - pd.DateOffset(years=n): same month, day clipped to the month's length
MinusYears(x, n) ==
    LET y == YearOf(x) - n
        m == MonthOf(x)
    IN  Date(y, m, Min2(DayOf(x), DaysInMonth(y, m)))

\* x + pd.DateOffset(months=k): month carried into the year, day clipped
PlusMonths(x, k) ==
    LET t == (MonthOf(x) - 1) + k
        y == YearOf(x) + (t \div 12)
        m == (t % 12) + 1
    IN  Date(y, m, Min2(DayOf(x), DaysInMonth(y, m)))

(***************************************************************************)
(* model.make_walkforward_splits                                           *)
(***************************************************************************)
SortDates(s) == SortSeq(s, LAMBDA a, b : a < b)

TrainStart(test_start, ty) == MinusYears(test_start, ty)
TestEnd(test_start, tm) == PlusMonths(test_start, tm)

TrainMaskInclusive(dates, test_start, ty) ==
    SelectSeq(dates, LAMBDA x : x >= TrainStart(test_start, ty) /\ x <= test_start)
\* rebal_dates[(rebal_dates >= train_start) & (rebal_dates < train_end)]
TrainDates(dates, test_start, ty) ==
    SelectSeq(dates, LAMBDA x : x >= TrainStart(test_start, ty) /\ x < test_start)

\* rebal_dates[(rebal_dates >= test_start) & (rebal_dates < test_end)]
TestDates(dates, test_start, tm) ==
    SelectSeq(dates, LAMBDA x : x >= test_start /\ x < TestEnd(test_start, tm))

\* the guard "len(train_dates) < 24 or len(test_dates) < 1: continue"
SplitSkipped(tr, te) == Len(tr) < MIN_TRAIN_DATES \/ Len(te) < 1

RECURSIVE SplitsFrom(_, _, _, _)
SplitsFrom(dates, k, ty, tm) ==
    IF k > Len(dates) THEN <<>>
    ELSE LET tr == TrainDates(dates, dates[k], ty)
             te == TestDates(dates, dates[k], tm)
             rest == SplitsFrom(dates, k + 1, ty, tm)
         IN  IF SplitSkipped(tr, te) THEN rest
             ELSE <<[train |-> tr, test |-> te]>> \o rest

MakeWalkforwardSplits(dates_in, ty, tm) == SplitsFrom(SortDates(dates_in), 1, ty, tm)

(***************************************************************************)
(* Input schedules: p dates in each of n consecutive months from January   *)
(* of START_YEAR (the k-th at day k*len/p, the last at the month's end),   *)
(* optionally with one month missing.                                      *)
(***************************************************************************)
MonthDate(mi, k, p) ==
    LET y == START_YEAR + (mi \div 12)
        m == (mi % 12) + 1
    IN  Date(y, m, (k * DaysInMonth(y, m)) \div p)

RECURSIVE Calendar(_, _, _)
Calendar(n, p, present) ==
    IF n = 0 THEN <<>>
    ELSE Calendar(n - 1, p, present) \o
         (IF (n - 1) \in present THEN [k \in 1..p |-> MonthDate(n - 1, k, p)] ELSE <<>>)

Orderings(s) ==
    IF s = <<>> THEN {s}
    ELSE {s, Reverse(s), Tail(s) \o <<Head(s)>>, s \o <<s[Len(s)]>>, <<s[1]>> \o s}

SplitIdle ==
    /\ rebal_in = <<>> /\ train_years = 0 /\ test_months = 0
    /\ rebal = <<>> /\ ci = 0 /\ splits = <<>>

GenIdle ==
    /\ panel_dates = <<>> /\ feat_rows = <<>> /\ horizon = 0 /\ min_universe = 0
    /\ target_date = <<>> /\ rebal_dates = <<>> /\ usable = <<>> /\ wsplits = <<>>
    /\ si = 0 /\ di = 0 /\ model = 0 /\ X_train = {} /\ monthly_positions = <<>>
    /\ write_log = <<>>

PosIdle ==
    /\ preds = <<>> /\ top_q = <<0, 1>> /\ bot_q = <<0, 1>> /\ long_cut = <<0, 1>>
    /\ short_cut = <<0, 1>> /\ longs = {} /\ shorts = {} /\ w = <<>>

BtIdle ==
    /\ px = <<>> /\ sched = <<>> /\ tc_bps = 0 /\ pad_fill = FALSE /\ daily_ret = <<>>
    /\ daily_w = <<>> /\ turnover = <<>> /\ tc = <<>> /\ port_ret = <<>>
    /\ bt_stats = <<>> /\ bt_out = <<>>

PerfIdle ==
    /\ returns = <<>> /\ equity = <<>> /\ peak = <<>> /\ dd = <<>> /\ perf_stats = <<>>

SplitInit ==
    /\ pc = "split_sort"
    /\ GenIdle /\ PosIdle /\ BtIdle /\ PerfIdle
    /\ train_years \in 1..MaxTrainYears
    /\ test_months \in 1..MaxTestMonths
    /\ \E n \in (MaxMonths - 2)..MaxMonths, p \in 1..MaxPerMonth, gap \in {0, 1, 13} :
          \E s \in Orderings(Calendar(n, p, (0..(n - 1)) \ {gap - 1})) : rebal_in = s
    /\ rebal = <<>> /\ ci = 0 /\ splits = <<>>

\* rebal_dates = pd.to_datetime(pd.Index(rebal_dates)).sort_values(); splits = []
SplitSort ==
    /\ pc = "split_sort"
    /\ rebal' = SortDates(rebal_in)
    /\ ci' = 1
    /\ splits' = <<>>
    /\ pc' = "split_loop"
    /\ UNCHANGED <<rebal_in, train_years, test_months, genVars, posVars, btVars, perfVars>>

\* one iteration of "for test_start in rebal_dates" that appends
SplitEmit ==
    /\ pc = "split_loop" /\ ci <= Len(rebal)
    /\ LET tr == TrainDates(rebal, rebal[ci], train_years)
           te == TestDates(rebal, rebal[ci], test_months)
       IN  /\ ~SplitSkipped(tr, te)
           /\ splits' = Append(splits, [train |-> tr, test |-> te])
    /\ ci' = ci + 1
    /\ UNCHANGED <<pc, rebal_in, train_years, test_months, rebal, genVars, posVars, btVars,
                   perfVars>>

\* one iteration that hits "continue"
SplitSkip ==
    /\ pc = "split_loop" /\ ci <= Len(rebal)
    /\ SplitSkipped(TrainDates(rebal, rebal[ci], train_years),
                    TestDates(rebal, rebal[ci], test_months))
    /\ ci' = ci + 1
    /\ UNCHANGED <<pc, rebal_in, train_years, test_months, rebal, splits, genVars, posVars,
                   btVars, perfVars>>

\* return splits
SplitReturn ==
    /\ pc = "split_loop" /\ ci > Len(rebal)
    /\ pc' = "split_done"
    /\ UNCHANGED <<splitVars, genVars, posVars, btVars, perfVars>>

SplitNext == SplitSort \/ SplitEmit \/ SplitSkip \/ SplitReturn

SpecSplit == SplitInit /\ [][SplitNext]_vars

(***************************************************************************)
(* C1: every emitted (train_dates, test_dates) pair has disjoint windows,  *)
(* every train date strictly earlier than every test date, at least 24     *)
(* train dates and at least 1 test date, whatever the order of the input.  *)
(***************************************************************************)
C1_SplitsCausal ==
    \A k \in DOMAIN splits :
        LET tr == splits[k].train
            te == splits[k].test
        IN  /\ SeqToSet(tr) \cap SeqToSet(te) = {}
            /\ \A a \in SeqToSet(tr), b \in SeqToSet(te) : a < b
            /\ Len(tr) >= MIN_TRAIN_DATES
            /\ Len(te) >= 1

\* a finished run on an unsorted input that emitted a split
C1_Witness ==
    /\ pc = "split_done"
    /\ rebal_in # rebal
    /\ splits # <<>>

(***************************************************************************)
(* run.main (lines 59-68): add_target, month_ends; then                    *)
(* model.generate_monthly_positions.  The regressor is the capability      *)
(* {fit, predict}: a fit is identified by the split it was run in, and the *)
(* WeightVector built from model.predict(X_d) by the pair (fit, d).        *)
(***************************************************************************)
RECURSIVE SumOver(_, _)
SumOver(f, S) ==
    IF S = {} THEN 0
    ELSE LET x == CHOOSE y \in S : TRUE IN f[x] + SumOver(f, S \ {x})

RECURSIVE SetToSortedSeq(_)
SetToSortedSeq(S) ==
    IF S = {} THEN <<>>
    ELSE LET x == CHOOSE y \in S : \A z \in S : y <= z
         IN  <<x>> \o SetToSortedSeq(S \ {x})

SameMonth(a, b) == YearOf(a) = YearOf(b) /\ MonthOf(a) = MonthOf(b)

\* backtest.month_ends: the latest date of every (year, month) group
MonthEnds(dates) ==
    LET S == SeqToSet(dates)
    IN  SetToSortedSeq({d \in S : \A e \in S : SameMonth(d, e) => e <= d})

\* features.add_target: close shifted by -horizon rows within the ticker
TargetDate(dates, h) ==
    [d \in SeqToSet(dates) |->
        LET k == CHOOSE j \in DOMAIN dates : dates[j] = d
        IN  IF k + h <= Len(dates) THEN dates[k + h] ELSE 0]

\* panel.dropna(subset=feature_cols + ["y_fwd_3m"]), counted per date
Usable(dates, feats, tgt) ==
    [d \in SeqToSet(dates) |-> IF tgt[d] # 0 THEN feats[d] ELSE 0]

\* rows selected by dates_index.isin(train_dates)
TrainRowDates(us, train) == {t \in SeqToSet(train) \cap DOMAIN us : us[t] > 0}
TrainRowCount(us, train) == SumOver(us, SeqToSet(train) \cap DOMAIN us)
\* X.shape[0] for the cross-section of date d
CrossSection(us, d) == IF d \in DOMAIN us THEN us[d] ELSE 0

TestStart(split) == split.test[1]
\* the WeightVector built from the predictions of fit m on the cross-section of d
WeightsOf(m, d) == [scorer |-> m, xs |-> d]

DictSetDefault(mp, d, v) ==
    [x \in DOMAIN mp \cup {d} |-> IF x \in DOMAIN mp THEN mp[x] ELSE v]
\* monthly_positions[d] = w
DictSet(mp, d, v) == [x \in DOMAIN mp \cup {d} |-> IF x = d THEN v ELSE mp[x]]

RowChoices == {30, 42, 60}
GapTail == {59, 63, 66}

GenInit ==
    /\ pc = "main_target"
    /\ SplitIdle /\ PosIdle /\ BtIdle /\ PerfIdle
    /\ \E n \in (MaxMonths - 2)..MaxMonths, p \in 1..MaxPerMonth, tail \in {{}, GapTail} :
          /\ panel_dates = Calendar(MaxOf((0..(n - 1)) \cup tail) + 1, p,
                                    (0..(n - 1)) \cup tail)
          /\ \E re \in RowChoices, rl \in RowChoices :
                feat_rows = [d \in SeqToSet(panel_dates) |->
                                IF d < MonthDate(MIN_TRAIN_DATES, 0, 1) THEN re ELSE rl]
    /\ horizon \in 1..MaxHorizon
    /\ min_universe \in {1, MIN_UNIVERSE}
    /\ target_date = <<>> /\ rebal_dates = <<>> /\ usable = <<>> /\ wsplits = <<>>
    /\ si = 0 /\ di = 0 /\ model = 0 /\ X_train = {} /\ monthly_positions = <<>>
    /\ write_log = <<>>

\* run.main: panel = add_target(panel, horizon)
MainAddTarget ==
    /\ pc = "main_target"
    /\ target_date' = TargetDate(panel_dates, horizon)
    /\ pc' = "main_rebal"
    /\ UNCHANGED <<splitVars, posVars, btVars, perfVars, panel_dates, feat_rows, horizon,
                   min_universe, rebal_dates,
                   usable, wsplits, si, di, model, X_train, monthly_positions, write_log>>

\* run.main: rebal_dates = month_ends(panel.index.get_level_values("date"))
MainMonthEnds ==
    /\ pc = "main_rebal"
    /\ rebal_dates' = MonthEnds(panel_dates)
    /\ pc' = "gen_start"
    /\ UNCHANGED <<splitVars, posVars, btVars, perfVars, panel_dates, feat_rows, horizon,
                   min_universe, target_date,
                   usable, wsplits, si, di, model, X_train, monthly_positions, write_log>>

\* generate_monthly_positions, lines 67-71
GenStart ==
    /\ pc = "gen_start"
    /\ usable' = Usable(panel_dates, feat_rows, target_date)
    /\ wsplits' = MakeWalkforwardSplits(rebal_dates, TRAIN_YEARS, TEST_MONTHS)
    /\ monthly_positions' = <<>>
    /\ model' = 0
    /\ si' = 1
    /\ pc' = "gen_loop"
    /\ UNCHANGED <<splitVars, posVars, btVars, perfVars, panel_dates, feat_rows, horizon,
                   min_universe, target_date,
                   rebal_dates, di, X_train, write_log>>

\* lines 73-82: the split has fewer than 1000 train rows: continue
GenFitSkip ==
    /\ pc = "gen_loop" /\ si <= Len(wsplits)
    /\ TrainRowCount(usable, wsplits[si].train) < MIN_TRAIN_ROWS
    /\ X_train' = {[date |-> t, target |-> target_date[t]] :
                      t \in TrainRowDates(usable, wsplits[si].train)}
    /\ si' = si + 1
    /\ UNCHANGED <<pc, splitVars, posVars, btVars, perfVars, panel_dates, feat_rows, horizon,
                   min_universe,
                   target_date, rebal_dates, usable, wsplits, di, model,
                   monthly_positions, write_log>>

\* lines 73-84: model.fit(X_train, y_train) replaces the fitted state
GenFit ==
    /\ pc = "gen_loop" /\ si <= Len(wsplits)
    /\ TrainRowCount(usable, wsplits[si].train) >= MIN_TRAIN_ROWS
    /\ X_train' = {[date |-> t, target |-> target_date[t]] :
                      t \in TrainRowDates(usable, wsplits[si].train)}
    /\ model' = TestStart(wsplits[si])
    /\ di' = 1
    /\ pc' = "gen_score"
    /\ UNCHANGED <<splitVars, posVars, btVars, perfVars, panel_dates, feat_rows, horizon,
                   min_universe, target_date,
                   rebal_dates, usable, wsplits, si, monthly_positions, write_log>>

\* lines 87-90: the cross-section is smaller than min_universe: continue
GenScoreSkip ==
    /\ pc = "gen_score" /\ di <= Len(wsplits[si].test)
    /\ CrossSection(usable, wsplits[si].test[di]) < min_universe
    /\ di' = di + 1
    /\ UNCHANGED <<pc, splitVars, posVars, btVars, perfVars, panel_dates, feat_rows, horizon,
                   min_universe,
                   target_date, rebal_dates, usable, wsplits, si, model, X_train,
                   monthly_positions, write_log>>

\* lines 87-107: predict, build the weights, monthly_positions[d] = w
GenScoreStore ==
    /\ pc = "gen_score" /\ di <= Len(wsplits[si].test)
    /\ LET d == wsplits[si].test[di]
       IN  /\ CrossSection(usable, d) >= min_universe
           /\ monthly_positions' = DictSet(monthly_positions, d, WeightsOf(model, d))
           /\ write_log' = Append(write_log, [split |-> TestStart(wsplits[si]), date |-> d])
    /\ di' = di + 1
    /\ UNCHANGED <<pc, splitVars, posVars, btVars, perfVars, panel_dates, feat_rows, horizon,
                   min_universe,
                   target_date, rebal_dates, usable, wsplits, si, model, X_train>>

\* the inner loop is exhausted: next split
GenScoreEnd ==
    /\ pc = "gen_score" /\ di > Len(wsplits[si].test)
    /\ si' = si + 1
    /\ pc' = "gen_loop"
    /\ UNCHANGED <<splitVars, posVars, btVars, perfVars, panel_dates, feat_rows, horizon,
                   min_universe, target_date,
                   rebal_dates, usable, wsplits, di, model, X_train, monthly_positions,
                   write_log>>

\* line 109: return monthly_positions
GenReturn ==
    /\ pc = "gen_loop" /\ si > Len(wsplits)
    /\ pc' = "gen_done"
    /\ UNCHANGED <<splitVars, genVars, posVars, btVars, perfVars>>

GenNext ==
    \/ MainAddTarget \/ MainMonthEnds \/ GenStart \/ GenFitSkip \/ GenFit
    \/ GenScoreSkip \/ GenScoreStore \/ GenScoreEnd \/ GenReturn

SpecGen == GenInit /\ [][GenNext]_vars

\* the split was not skipped by the 1000-row guard
Trained(k) == TrainRowCount(usable, wsplits[k].train) >= MIN_TRAIN_ROWS
\* the dates of split k's test window whose cross-section passes min_universe
ScoredDates(k) ==
    {d \in SeqToSet(wsplits[k].test) : CrossSection(usable, d) >= min_universe}
\* what one pass of the outer loop body over split k alone writes
SplitOutput(k) ==
    IF Trained(k) THEN [d \in ScoredDates(k) |-> WeightsOf(TestStart(wsplits[k]), d)]
    ELSE <<>>
\* merging one split's output into the schedule: writes by date key
MergeInto(mp, out) ==
    [x \in DOMAIN mp \cup DOMAIN out |-> IF x \in DOMAIN out THEN out[x] ELSE mp[x]]
RECURSIVE MergeInOrder(_, _)
MergeInOrder(order, k) ==
    IF k = 0 THEN <<>>
    ELSE MergeInto(MergeInOrder(order, k - 1), SplitOutput(order[k]))
Writers(d) == {k \in DOMAIN wsplits : Trained(k) /\ d \in ScoredDates(k)}

C9_OwnModel ==
    pc = "gen_done" =>
        \A d \in DOMAIN monthly_positions : monthly_positions[d].scorer = d

(***************************************************************************)
(* C10 as stated: every training row passed to model.fit, target included, *)
(* depends only on closes dated strictly before the split's first test     *)
(* date: for a train row at t, the close at t + h rows is earlier too.     *)
(***************************************************************************)
C10_NoLookAhead ==
    pc = "gen_score" =>
        \A r \in X_train :
            /\ r.date < wsplits[si].test[1]
            /\ r.target < wsplits[si].test[1]

(***************************************************************************)
(* generate_monthly_positions, lines 92-107: the position-building step on *)
(* one cross-section.  preds holds no NaN (the regressor returns finite    *)
(* predictions for the NaN-free rows of usable), so dropna keeps them all. *)
(***************************************************************************)
SortInts(s) == SortSeq(s, LAMBDA a, b : a < b)

QuantileLower(s, q) ==
    LET v == SortInts(s)
    IN  Rat(v[((q[1] * (Len(s) - 1)) \div q[2]) + 1], 1)
\* Series.quantile(q), linear interpolation between the order statistics
Quantile(s, q) ==
    LET v == SortInts(s)
        num == q[1] * (Len(s) - 1)
        lo == num \div q[2]
        rem == num % q[2]
        hi == Min2(lo + 1, Len(s) - 1)
    IN  Rat(q[2] * v[lo + 1] + rem * (v[hi + 1] - v[lo + 1]), q[2])

\* s[s >= long_cut].index and s[s <= short_cut].index
LongSet(s, cut) == {t \in DOMAIN s : RLe(cut, Rat(s[t], 1))}
ShortSet(s, cut) == {t \in DOMAIN s : RLe(Rat(s[t], 1), cut)}

\* w = 0.0; w.loc[longs] = 1/len(longs); w.loc[shorts] = -1/len(shorts)
BuildWeights(s, ls, ss) ==
    LET w0 == [t \in DOMAIN s |-> Zero]
        w1 == IF Cardinality(ls) > 0
              THEN [t \in DOMAIN s |-> IF t \in ls THEN Rat(1, Cardinality(ls)) ELSE w0[t]]
              ELSE w0
    IN  IF Cardinality(ss) > 0
        THEN [t \in DOMAIN s |-> IF t \in ss THEN Rat(-1, Cardinality(ss)) ELSE w1[t]]
        ELSE w1

QChoices == {Rat(1, 10), Rat(1, 4), Rat(1, 2)}
PosDate == MonthDate(0, 1, 1)

PosInit ==
    /\ pc = "pos_cuts"
    /\ SplitIdle /\ GenIdle /\ BtIdle /\ PerfIdle
    /\ \E n \in 1..MaxTickers : preds \in [1..n -> 0..MaxScore]
    /\ top_q \in QChoices
    /\ bot_q \in QChoices
    /\ long_cut = Zero /\ short_cut = Zero /\ longs = {} /\ shorts = {} /\ w = <<>>

\* lines 95-96
PosCuts ==
    /\ pc = "pos_cuts"
    /\ long_cut' = Quantile(preds, RSub(One, top_q))
    /\ short_cut' = Quantile(preds, bot_q)
    /\ pc' = "pos_select"
    /\ UNCHANGED <<splitVars, genVars, btVars, perfVars, preds, top_q, bot_q, longs, shorts, w>>

\* lines 98-99
PosSelect ==
    /\ pc = "pos_select"
    /\ longs' = LongSet(preds, long_cut)
    /\ shorts' = ShortSet(preds, short_cut)
    /\ pc' = "pos_weights"
    /\ UNCHANGED <<splitVars, genVars, btVars, perfVars, preds, top_q, bot_q, long_cut,
                   short_cut, w>>

\* lines 101-105
PosWeights ==
    /\ pc = "pos_weights"
    /\ w' = BuildWeights(preds, longs, shorts)
    /\ pc' = "pos_store"
    /\ UNCHANGED <<splitVars, genVars, btVars, perfVars, preds, top_q, bot_q, long_cut,
                   short_cut, longs, shorts>>

\* line 107: monthly_positions[pd.Timestamp(d)] = w
PosStore ==
    /\ pc = "pos_store"
    /\ monthly_positions' = DictSet(monthly_positions, PosDate, w)
    /\ pc' = "pos_stored"
    /\ UNCHANGED <<splitVars, genOther, posVars, btVars, perfVars>>

PosNext == PosCuts \/ PosSelect \/ PosWeights \/ PosStore

SpecPos == PosInit /\ [][PosNext]_vars

PositiveSum(wv) == RSumSet(wv, {t \in DOMAIN wv : RLt(Zero, wv[t])})
NegativeSum(wv) == RSumSet(wv, {t \in DOMAIN wv : RLt(wv[t], Zero)})

(***************************************************************************)
(* C2 as stated: in every stored WeightVector, if the long set             *)
(* {score >= long_cut} is nonempty the positive entries sum to 1, if the   *)
(* short set {score <= short_cut} is nonempty the negative entries sum to  *)
(* -1, and every ticker outside both sets has weight exactly 0.            *)
(***************************************************************************)
C2_LegSums ==
    \A d \in DOMAIN monthly_positions :
        LET wv == monthly_positions[d]
        IN  /\ LongSet(preds, long_cut) # {} => PositiveSum(wv) = One
            /\ ShortSet(preds, short_cut) # {} => NegativeSum(wv) = Rat(-1, 1)
            /\ \A t \in DOMAIN wv :
                  t \notin LongSet(preds, long_cut) \cup ShortSet(preds, short_cut)
                      => wv[t] = Zero

(***************************************************************************)
(* C6: with top_q = bot_q = 0.5, an even number of tickers and pairwise    *)
(* distinct scores, the long and the short set are disjoint, their union   *)
(* is the whole cross-section, and no ticker ends with weight 0.           *)
(***************************************************************************)
EvenDistinctHalf ==
    /\ top_q = Rat(1, 2) /\ bot_q = Rat(1, 2)
    /\ Len(preds) % 2 = 0
    /\ \A a, b \in DOMAIN preds : a # b => preds[a] # preds[b]

C6_EveryTickerInOneLeg ==
    (pc = "pos_stored" /\ EvenDistinctHalf) =>
        /\ longs \cap shorts = {}
        /\ longs \cup shorts = DOMAIN preds
        /\ \A t \in DOMAIN preds : monthly_positions[PosDate][t] # Zero

\* a stored four-ticker cross-section with distinct scores, split in halves
C6_Witness ==
    /\ pc = "pos_stored" /\ EvenDistinctHalf
    /\ Len(preds) = 4
    /\ Cardinality(longs) = 2 /\ Cardinality(shorts) = 2

(***************************************************************************)
(* backtest.compute_perf_stats.  CAGR and Sharpe are roots of rationals    *)
(* and are not carried; they do not enter MaxDD.                           *)
(***************************************************************************)
\* returns.dropna()
DropNa(s) == SelectSeq(s, LAMBDA x : ~IsNaN(x))

\* (1 + r).cumprod()
RECURSIVE CumProd(_, _)
CumProd(r, k) ==
    IF k = 0 THEN <<>>
    ELSE LET prev == CumProd(r, k - 1)
         IN  Append(prev, RMul(IF k = 1 THEN One ELSE prev[k - 1], RAdd(One, r[k])))

\* equity.cummax()
RECURSIVE CumMax(_, _)
CumMax(e, k) ==
    IF k = 0 THEN <<>>
    ELSE LET prev == CumMax(e, k - 1)
         IN  Append(prev, IF k = 1 \/ RLt(prev[k - 1], e[k]) THEN e[k] ELSE prev[k - 1])

\* equity / peak - 1
Drawdown(e, pk) == [k \in DOMAIN e |-> RSub(RDiv(e[k], pk[k]), One)]

\* Series.min(): NaN entries are skipped; NaN when nothing is left
SeriesMin(s) ==
    LET v == DropNa(s)
    IN  IF v = <<>> THEN NaN
        ELSE CHOOSE x \in SeqToSet(v) : \A y \in SeqToSet(v) : RLe(x, y)

\* the MaxDD entry of compute_perf_stats(returns)
MaxDDOf(rs) ==
    LET r == DropNa(rs)
        e == CumProd(r, Len(r))
    IN  IF r = <<>> THEN Zero ELSE SeriesMin(Drawdown(e, CumMax(e, Len(e))))

RetChoices == {NaN, Rat(-2, 1), Rat(-1, 1), Rat(-1, 2), Zero, Rat(1, 2), One}

PerfInit ==
    /\ pc = "perf_start"
    /\ SplitIdle /\ GenIdle /\ PosIdle /\ BtIdle
    /\ \E n \in 0..MaxRetLen : returns \in [1..n -> RetChoices]
    /\ equity = <<>> /\ peak = <<>> /\ dd = <<>> /\ perf_stats = <<>>

\* lines 25-27: r.empty
PerfEmpty ==
    /\ pc = "perf_start"
    /\ DropNa(returns) = <<>>
    /\ perf_stats' = [MaxDD |-> Zero]
    /\ pc' = "perf_done"
    /\ UNCHANGED <<splitVars, genVars, posVars, btVars, returns, equity, peak, dd>>

\* line 29
PerfEquity ==
    /\ pc = "perf_start"
    /\ DropNa(returns) # <<>>
    /\ equity' = CumProd(DropNa(returns), Len(DropNa(returns)))
    /\ pc' = "perf_dd"
    /\ UNCHANGED <<splitVars, genVars, posVars, btVars, returns, peak, dd, perf_stats>>

\* lines 34-38
PerfDrawdown ==
    /\ pc = "perf_dd"
    /\ peak' = CumMax(equity, Len(equity))
    /\ dd' = Drawdown(equity, peak')
    /\ perf_stats' = [MaxDD |-> SeriesMin(dd')]
    /\ pc' = "perf_done"
    /\ UNCHANGED <<splitVars, genVars, posVars, btVars, returns, equity>>

PerfNext == PerfEmpty \/ PerfEquity \/ PerfDrawdown

SpecPerf == PerfInit /\ [][PerfNext]_vars

NonDecreasing(e) == \A k \in 2..Len(e) : RLe(e[k - 1], e[k])

(***************************************************************************)
(* C5 as stated: for every return series, returns at or below -1 included, *)
(* MaxDD <= 0, and MaxDD = 0 exactly when the equity curve cumprod(1 + r)  *)
(* is non-decreasing over the whole series.                                *)
(***************************************************************************)
C5_MaxDD ==
    pc = "perf_done" =>
        LET r == DropNa(returns)
        IN  /\ RLe(perf_stats.MaxDD, Zero)
            /\ perf_stats.MaxDD = Zero <=> NonDecreasing(CumProd(r, Len(r)))

(***************************************************************************)
(* backtest.backtest_positions.  Trading days are 1..Len(px); a schedule   *)
(* key is a day, or 0 for a date before the first trading day.             *)
(***************************************************************************)
Tickers == {"A", "B"}

\* the close padded forward: the latest non-missing close up to day t
RECURSIVE Padded(_, _, _)
Padded(p, t, k) ==
    IF t = 0 THEN NaN
    ELSE IF ~IsNaN(p[t][k]) THEN p[t][k] ELSE Padded(p, t - 1, k)

\* px.pct_change(): the first row is NaN; missing closes are padded forward
\* first by the pandas versions whose fill_method defaults to "pad"
PctChange(p, pad) ==
    [t \in DOMAIN p |->
        [k \in Tickers |->
            IF t = 1 THEN NaN
            ELSE IF pad THEN RSub(RDiv(Padded(p, t, k), Padded(p, t - 1, k)), One)
                 ELSE RSub(RDiv(p[t][k], p[t - 1][k]), One)]]

\* pd.DataFrame(monthly_positions).T.sort_index().reindex(columns=...).fillna(0.0)
PosRow(sc, d) ==
    [k \in Tickers |-> IF k \in DOMAIN sc[d] THEN FillNa0(sc[d][k]) ELSE Zero]

\* pos_df.reindex(daily_ret.index, method="ffill").fillna(0.0)
ProjectWeights(sc, n) ==
    [t \in 1..n |->
        LET past == {d \in DOMAIN sc : d <= t}
        IN  IF past = {} THEN [k \in Tickers |-> Zero] ELSE PosRow(sc, MaxOf(past))]

TurnoverSigned(dw, t) ==
    IF t = 1 THEN Zero
    ELSE RDiv(RSumSet([k \in Tickers |-> RSub(dw[t][k], dw[t - 1][k])], Tickers), Rat(2, 1))
TurnoverEntryCounted(dw, t) ==
    RDiv(RSumSet([k \in Tickers |->
                     RAbs(RSub(dw[t][k], IF t = 1 THEN Zero ELSE dw[t - 1][k]))], Tickers),
         Rat(2, 1))
\* daily_w.diff().fillna(0.0).abs().sum(axis=1) / 2.0 on day t
TurnoverAt(dw, t) ==
    IF t = 1 THEN Zero
    ELSE RDiv(RSumSet([k \in Tickers |-> RAbs(RSub(dw[t][k], dw[t - 1][k]))], Tickers),
              Rat(2, 1))

\* a quarter charged every day, whatever the turnover
CostFlat(to, bps) == Rat(1, 4)
\* turnover * (tc_bps / 10000.0)
CostOf(to, bps) == RMul(to, Rat(bps, 10000))

\* (daily_w.shift(1).fillna(0.0) * daily_ret).sum(axis=1) - tc on day t
PortRetAt(dw, dr, cost, t) ==
    LET lag == [k \in Tickers |-> IF t = 1 THEN Zero ELSE dw[t - 1][k]]
    IN  RSub(RSumSet([k \in Tickers |-> RMul(lag[k], dr[t][k])], Tickers), cost[t])

\* turnover.mean()
MeanOf(s) == RDiv(RSumSeq(s, Len(s)), Rat(Len(DropNa(s)), 1))

PriceRows ==
    {[A |-> Rat(1, 1), B |-> Rat(2, 1)], [A |-> Rat(2, 1), B |-> Rat(1, 1)],
     [A |-> NaN, B |-> Rat(1, 1)]}
CostChoices == {2500}
WeightChoices ==
    {[A |-> Zero, B |-> Zero], [A |-> Rat(1, 2), B |-> Rat(1, 2)], [A |-> Rat(-1, 1)]}

\* the lag and cost scenario: A = 100, 110, 99; B = 50, 49, 52; one entry on the first day
ScenarioPx ==
    <<[A |-> Rat(100, 1), B |-> Rat(50, 1)], [A |-> Rat(110, 1), B |-> Rat(49, 1)],
      [A |-> Rat(99, 1), B |-> Rat(52, 1)]>>
ScenarioSched == [d \in {1} |-> [A |-> Rat(1, 2), B |-> Rat(1, 2)]]

BtInit ==
    /\ pc = "bt_start"
    /\ SplitIdle /\ GenIdle /\ PosIdle /\ PerfIdle
    /\ \/ /\ px = ScenarioPx
          /\ sched = ScenarioSched
          /\ tc_bps = TC_BPS_DEFAULT
       \/ /\ \E n \in 2..MaxDays : px \in [1..n -> PriceRows]
          /\ \E keys \in SUBSET (0..Len(px)) :
                /\ Cardinality(keys) <= MaxEntries
                /\ sched \in [keys -> WeightChoices]
          /\ tc_bps \in CostChoices
    /\ pad_fill \in BOOLEAN
    /\ daily_ret = <<>> /\ daily_w = <<>> /\ turnover = <<>> /\ tc = <<>>
    /\ port_ret = <<>> /\ bt_stats = <<>> /\ bt_out = <<>>

\* lines 49-50: raise RuntimeError("No positions provided for backtest")
BtRaise ==
    /\ pc = "bt_start"
    /\ DOMAIN sched = {}
    /\ pc' = "bt_error"
    /\ UNCHANGED <<splitVars, genVars, posVars, btVars, perfVars>>

\* lines 53-54
BtReturns ==
    /\ pc = "bt_start"
    /\ DOMAIN sched # {}
    /\ daily_ret' = PctChange(px, pad_fill)
    /\ pc' = "bt_project"
    /\ UNCHANGED <<splitVars, genVars, posVars, perfVars, px, sched, tc_bps, pad_fill,
                   daily_w, turnover, tc, port_ret, bt_stats, bt_out>>

\* lines 56-60
BtProject ==
    /\ pc = "bt_project"
    /\ daily_w' = ProjectWeights(sched, Len(px))
    /\ pc' = "bt_turnover"
    /\ UNCHANGED <<splitVars, genVars, posVars, perfVars, px, sched, tc_bps, pad_fill,
                   daily_ret, turnover, tc, port_ret, bt_stats, bt_out>>

\* lines 63-65
BtTurnover ==
    /\ pc = "bt_turnover"
    /\ turnover' = [t \in DOMAIN daily_w |-> TurnoverAt(daily_w, t)]
    /\ tc' = [t \in DOMAIN daily_w |-> CostOf(turnover'[t], tc_bps)]
    /\ pc' = "bt_portret"
    /\ UNCHANGED <<splitVars, genVars, posVars, perfVars, px, sched, tc_bps, pad_fill,
                   daily_ret, daily_w, port_ret, bt_stats, bt_out>>

\* line 68
BtPortRet ==
    /\ pc = "bt_portret"
    /\ port_ret' = [t \in DOMAIN daily_w |-> PortRetAt(daily_w, daily_ret, tc, t)]
    /\ pc' = "bt_stats"
    /\ UNCHANGED <<splitVars, genVars, posVars, perfVars, px, sched, tc_bps, pad_fill,
                   daily_ret, daily_w, turnover, tc, bt_stats, bt_out>>

\* lines 70-75
BtReturn ==
    /\ pc = "bt_stats"
    /\ bt_stats' = [MaxDD |-> MaxDDOf(port_ret), AvgTurnover |-> MeanOf(turnover)]
    /\ bt_out' = [t \in DOMAIN port_ret |-> FillNa0(port_ret[t])]
    /\ pc' = "bt_done"
    /\ UNCHANGED <<splitVars, genVars, posVars, perfVars, px, sched, tc_bps, pad_fill,
                   daily_ret, daily_w, turnover, tc, port_ret>>

BtNext == BtRaise \/ BtReturns \/ BtProject \/ BtTurnover \/ BtPortRet \/ BtReturn

SpecBt == BtInit /\ [][BtNext]_vars

IsScenario == px = ScenarioPx /\ sched = ScenarioSched /\ tc_bps = TC_BPS_DEFAULT

(***************************************************************************)
(* C3 as stated: in the scenario the returned series is day0 = 0,          *)
(* day1 = 0.5*0.10 + 0.5*(-0.02) - 0.00025 = 0.03975 (the entry from flat  *)
(* costs turnover 0.5 on day1), day2 = 0.5*(99/110-1) + 0.5*(52/49-1).     *)
(***************************************************************************)
C3_ScenarioAsStated ==
    (pc = "bt_done" /\ IsScenario) =>
        bt_out = <<Zero, Rat(3975, 100000), Rat(-19, 980)>>

(***************************************************************************)
(* C3 amended: in the scenario the returned series is day0 = 0,            *)
(* day1 = 0.5*0.10 + 0.5*(-0.02) = 0.04 and day2 = -19/980; no cost is     *)
(* deducted on any day, because the schedule's only entry is on the first  *)
(* row of the panel, whose weight change is undefined and counts as 0, so  *)
(* turnover is 0 on all three days.                                        *)
(***************************************************************************)
C3_ScenarioNoEntryCost ==
    (pc = "bt_done" /\ IsScenario) =>
        /\ bt_out = <<Zero, Rat(4, 100), Rat(-19, 980)>>
        /\ turnover = <<Zero, Zero, Zero>>
        /\ tc = <<Zero, Zero, Zero>>

\* the scenario has been simulated to the end
C3_Witness == pc = "bt_done" /\ IsScenario /\ Len(bt_out) = 3

(***************************************************************************)
(* C4: daily turnover is >= 0 on every trading day, and it is exactly 0,   *)
(* with a transaction cost of 0, on every day whose projected weight       *)
(* vector equals the previous trading day's.                               *)
(***************************************************************************)
C4_Turnover ==
    \A t \in DOMAIN turnover :
        /\ RLe(Zero, turnover[t])
        /\ (t > 1 /\ daily_w[t] = daily_w[t - 1]) => (turnover[t] = Zero /\ tc[t] = Zero)

\* a run with a day that trades and a later day that holds nonzero weights unchanged
C4_Witness ==
    /\ pc = "bt_done"
    /\ \E t, u \in DOMAIN turnover :
          /\ RLt(Zero, turnover[t])
          /\ u > 1 /\ daily_w[u] = daily_w[u - 1] /\ turnover[u] = Zero
          /\ \E k \in Tickers : daily_w[u][k] # Zero

AllZeroSchedule ==
    /\ DOMAIN sched # {}
    /\ \A d \in DOMAIN sched : \A k \in DOMAIN sched[d] : sched[d][k] = Zero

(***************************************************************************)
(* C7: on a schedule whose every entry is an all-zero WeightVector, for    *)
(* any price panel (missing first-day returns and missing prices           *)
(* included), the returned series is 0 on every trading day with no        *)
(* missing value, and the average turnover is 0.                           *)
(***************************************************************************)
C7_ZeroSchedule ==
    (pc = "bt_done" /\ AllZeroSchedule) =>
        /\ DOMAIN bt_out = DOMAIN px
        /\ \A t \in DOMAIN bt_out : bt_out[t] = Zero
        /\ bt_stats.AvgTurnover = Zero

\* an all-zero schedule simulated over a panel with a missing price
C7_Witness ==
    /\ pc = "bt_done" /\ AllZeroSchedule
    /\ \E t \in DOMAIN px : \E k \in Tickers : IsNaN(px[t][k])
    /\ \E t \in DOMAIN daily_ret : \E k \in Tickers :
          ~IsNaN(daily_ret[t][k]) /\ daily_ret[t][k] # Zero

====
